---------------------------- MODULE Spec2Model ----------------------------
(***************************************************************************)
(* State-machine model of openslides/motion/models.py: the Motion model    *)
(* with its staged title/text/reason attributes, the version rows written  *)
(* by Motion.save, the workflow state of a motion, its supporters and its  *)
(* polls.                                                                  *)
(*                                                                         *)
(* One Python Motion object is held per motion.  The database is the       *)
(* sequence `versions' (the MotionVersion table: the primary key of a row  *)
(* is its position, keys are handed out in increasing order and no row is  *)
(* ever deleted by this file), the function `db_motion' (the Motion        *)
(* table), `supporter' (MotionSupporter rows) and `polls' (MotionPoll      *)
(* rows).  The column creation_time (auto_now) is not part of the model.   *)
(***************************************************************************)
EXTENDS Integers, Sequences, FiniteSets

\* ------------------------------------------------------------ bounds
\* Most MotionVersion rows the table may hold (all motions together).
MaxVersions == 3
\* Most MotionPoll rows one motion may hold.
MaxPolls == 3

Motions == {"m1", "m2"}
Persons == {"p1", "p2"}
Attrs == {"title", "text", "reason"}
\* Values a caller stages.
Vals == {"A", "B"}

\* ------------------------------------------------------------ workflow
\* openslides/motion/workflow.py is not part of the sources at hand; the
\* registry below follows the description of the workflow registry: a static
\* graph of states with capability flags, the token "default" resolving to
\* the entry state, and an error for everything unknown.
StateIds == {"pub", "per", "acc"}
DefaultStateId == "pub"
next_states(s) ==
    CASE s = "pub" -> {"per"}
      [] s = "per" -> {"acc", "pub"}
      [] OTHER -> {}
state_support(s) == s = "pub"
state_poll(s) == s = "per"
\* Arguments a caller hands to set_state: ids, the token, an unknown id.
StateArgs == StateIds \cup {"default", "zzz"}
\* workflow.get_state: the state an id or token resolves to, NoState when it
\* raises WorkflowError.
NoState == "NoState"
resolve(token) ==
    IF token = "default" THEN DefaultStateId
    ELSE IF token \in StateIds THEN token
    ELSE NoState

\* ------------------------------------------------------------ values
\* Attribute absent from the Motion object (hasattr is false).
Unset == "Unset"
\* No row in the Motion table.
NoRow == "NoRow"
\* Policies of config['motion_create_new_version'].
ALWAYS_NEW == "ALLWASY_CREATE_NEW_VERSION"
UPDATE_EXISTING == "UPDATE_EXISTING"
Policies == {ALWAYS_NEW, UPDATE_EXISTING}
\* Field defaults of an unsaved MotionVersion(motion=self): the CharField and
\* the TextField default to the empty string, the nullable reason to None.
Blank == ""
NoneVal == "None"
FieldDefault(a) == IF a = "reason" THEN NoneVal ELSE Blank
\* The attribute _version is absent.
NoVersion == [id |-> 0]
\* Exceptions a call ends with.
NoError == "none"
\* The callers that work on motion m1 at the same time, each with a Motion
\* object of its own read from the table; IdleHolder is one that has not
\* read it.
Holders == {"h1", "h2"}
IdleHolder ==
    [pc |-> "idle", op |-> "none", state_id |-> "",
     staged |-> [a \in Attrs |-> Unset], policy |-> "none", target |-> "none",
     pk |-> 0, row |-> [a \in Attrs |-> Unset], base |-> <<>>,
     person |-> "none", found |-> FALSE, num |-> 0, err |-> NoError]

VARIABLES
    state_id,         \* Motion.state_id of the object in memory ("" when unset)
    db_motion,        \* the Motion table: NoRow, or the persisted state_id
    staged,           \* the attributes _title, _text, _reason (Unset when absent)
    has_new_version,  \* hasattr(self, '_new_version')
    version_sel,      \* the attribute _version: the object selected (its
                      \*   primary key and the fields read), NoVersion when absent
    versions,         \* the MotionVersion table, in primary key order
    supporter,        \* number of MotionSupporter rows per (motion, person)
    polls,            \* the MotionPoll table
    err,              \* the exception the last call raised, NoError when none
    afterCommit,      \* history: save returned, and since then no setter,
                      \*   new_version or set_version call on the motion
    requested,        \* history: new_version was read by a caller since the
                      \*   last save
    lastSet,          \* history: the value a setter gave an attribute since
                      \*   the last save that wrote a version (Unset when none)
    assigned,         \* history: the poll numbers create_poll ever gave a motion
    holder            \* the callers that work on motion m1 at the same time,
                      \*   each with a Motion object of its own

vars == <<state_id, db_motion, staged, has_new_version, version_sel, versions,
          supporter, polls, err, afterCommit, requested, lastSet, assigned,
          holder>>

\* ------------------------------------------------------------ queries
\* self.versions: the primary keys of the motion's rows.
OwnIds(m) == {i \in 1..Len(versions) : versions[i].motion = m}
MaxOf(S) == CHOOSE x \in S : \A y \in S : y <= x
\* The unsaved object Motion.new_version builds: MotionVersion(motion=self).
NewVersionObject(m) ==
    [motion |-> m, title |-> FieldDefault("title"), text |-> FieldDefault("text"),
     reason |-> FieldDefault("reason")]
\* Motion.last_version: the row with the largest primary key; with no row
\* (IndexError) the new_version object.
last_version(m) ==
    IF OwnIds(m) = {} THEN NewVersionObject(m) ELSE versions[MaxOf(OwnIds(m))]
\* Faulty variant: get_version ignores the version set_version selected.
get_version_last(m) == last_version(m)
\* Motion.get_version: the selected object, else last_version.
get_version(m) ==
    IF version_sel[m].id # 0 THEN version_sel[m].row ELSE last_version(m)
\* Motion.get_title / get_text / get_reason.
get_attr(m, a) ==
    IF staged[m][a] # Unset THEN staged[m][a] ELSE get_version(m)[a]
\* Motion.get_state: the State of state_id, None (NoState) when unknown.
get_state(m) == resolve(state_id[m])
\* Faulty variant: version_number counts the rows of every motion.
version_number_all(pk) == Cardinality({i \in 1..Len(versions) : i <= pk})
\* MotionVersion.version_number of the saved row with primary key pk.
version_number(pk) ==
    Cardinality({i \in 1..Len(versions) :
                    versions[i].motion = versions[pk].motion /\ i <= pk})
\* Faulty variant: is_supporter finds no row.
is_supporter_never(m, p) == FALSE
\* Motion.is_supporter.
is_supporter(m, p) == supporter[<<m, p>>] > 0

Init ==
    /\ state_id = [m \in Motions |-> ""]
    /\ db_motion = [m \in Motions |-> NoRow]
    /\ staged = [m \in Motions |-> [a \in Attrs |-> Unset]]
    /\ has_new_version = [m \in Motions |-> FALSE]
    /\ version_sel = [m \in Motions |-> NoVersion]
    /\ versions = <<>>
    /\ supporter = [k \in Motions \X Persons |-> 0]
    /\ polls = {}
    /\ err = NoError
    /\ afterCommit = [m \in Motions |-> FALSE]
    /\ requested = [m \in Motions |-> FALSE]
    /\ lastSet = [m \in Motions |-> [a \in Attrs |-> Unset]]
    /\ assigned = [m \in Motions |-> {}]
    /\ holder = [h \in Holders |-> IdleHolder]


\* ------------------------------------------------------------ staging
\* Motion.set_title / set_text / set_reason: the value is kept on the object.
set_attr(m, a, v) ==
    /\ staged' = [staged EXCEPT ![m][a] = v]
    /\ lastSet' = [lastSet EXCEPT ![m][a] = v]
    /\ afterCommit' = [afterCommit EXCEPT ![m] = FALSE]
    /\ err' = NoError
    /\ UNCHANGED <<state_id, db_motion, has_new_version, version_sel, versions,
                   supporter, polls, requested,
                   assigned, holder>>

\* Whether reading last_version builds the _new_version object: the motion
\* has no row (IndexError) and the property new_version is read.
last_version_builds(m) == OwnIds(m) = {}

\* A caller reads title, text or reason (get_title and its siblings): without
\* a staged value and a selected version the read goes to last_version.
call_get_attr(m, a) ==
    /\ has_new_version' =
          IF staged[m][a] = Unset /\ version_sel[m].id = 0 /\ last_version_builds(m)
          THEN [has_new_version EXCEPT ![m] = TRUE]
          ELSE has_new_version
    /\ err' = NoError
    /\ UNCHANGED <<state_id, db_motion, staged, version_sel, versions, supporter,
                   polls, afterCommit, requested,
                   lastSet, assigned, holder>>

\* A caller reads the property Motion.new_version: the object is built on
\* the first read and kept as _new_version.
new_version(m) ==
    /\ has_new_version' = [has_new_version EXCEPT ![m] = TRUE]
    /\ requested' = [requested EXCEPT ![m] = TRUE]
    /\ afterCommit' = [afterCommit EXCEPT ![m] = FALSE]
    /\ err' = NoError
    /\ UNCHANGED <<state_id, db_motion, staged, version_sel, versions, supporter,
                   polls,
                   lastSet, assigned, holder>>

\* ------------------------------------------------------------ version choice
\* self.versions.all()[n]: the rows of the motion in primary key order,
\* counted from 0.
OwnSeq(m) == SelectSeq([i \in 1..Len(versions) |-> i],
                       LAMBDA i : versions[i].motion = m)
Selected(pk) == [id |-> pk, row |-> versions[pk]]

\* Motion.set_version(None).
set_version_none(m) ==
    /\ version_sel' = [version_sel EXCEPT ![m] = NoVersion]
    /\ afterCommit' = [afterCommit EXCEPT ![m] = FALSE]
    /\ err' = NoError
    /\ UNCHANGED <<state_id, db_motion, staged, has_new_version, versions,
                   supporter, polls, requested,
                   lastSet, assigned, holder>>

\* Motion.set_version(n) for an int n.
set_version_int(m, n) ==
    /\ IF n < 0
       THEN err' = "AssertionError" /\ UNCHANGED version_sel
       ELSE IF n >= Len(OwnSeq(m))
       THEN err' = "IndexError" /\ UNCHANGED version_sel
       ELSE /\ version_sel' = [version_sel EXCEPT ![m] = Selected(OwnSeq(m)[n + 1])]
            /\ err' = NoError
    /\ afterCommit' = [afterCommit EXCEPT ![m] = FALSE]
    /\ UNCHANGED <<state_id, db_motion, staged, has_new_version, versions,
                   supporter, polls, requested,
                   lastSet, assigned, holder>>

\* Motion.set_version(v) for a MotionVersion object v read from the table
\* (of whatever motion: the code does not test it).
set_version_object(m, pk) ==
    /\ pk \in 1..Len(versions)
    /\ version_sel' = [version_sel EXCEPT ![m] = Selected(pk)]
    /\ afterCommit' = [afterCommit EXCEPT ![m] = FALSE]
    /\ err' = NoError
    /\ UNCHANGED <<state_id, db_motion, staged, has_new_version, versions,
                   supporter, polls, requested,
                   lastSet, assigned, holder>>

\* Motion.set_version(x) for any other type.
set_version_other(m) ==
    /\ err' = "ValueError"
    /\ afterCommit' = [afterCommit EXCEPT ![m] = FALSE]
    /\ UNCHANGED <<state_id, db_motion, staged, has_new_version, version_sel,
                   versions, supporter, polls, requested,
                   lastSet, assigned, holder>>

\* ------------------------------------------------------------ workflow
\* Faulty variant: reset_state leaves state_id empty.
reset_state_id_unset == ""
\* Motion.reset_state: state_id becomes the id of get_state('default').
reset_state_id == resolve("default")

reset_state(m) ==
    /\ state_id' = [state_id EXCEPT ![m] = reset_state_id]
    /\ err' = NoError
    /\ UNCHANGED <<db_motion, staged, has_new_version, version_sel, versions,
                   supporter, polls, afterCommit, requested,
                   lastSet, assigned, holder>>

\* Motion.set_state, line 294: the test that lets the assignment happen.
is_next_state(m, next) == next \in next_states(get_state(m))

\* Motion.set_state(arg): get_state(arg) raises WorkflowError for an unknown
\* argument; self.state is None for a state_id the registry does not know,
\* and None.next_states raises AttributeError.
set_state(m, arg) ==
    /\ IF resolve(arg) = NoState
       THEN err' = "WorkflowError" /\ UNCHANGED state_id
       ELSE IF get_state(m) = NoState
       THEN err' = "AttributeError" /\ UNCHANGED state_id
       ELSE IF is_next_state(m, resolve(arg))
       THEN /\ state_id' = [state_id EXCEPT ![m] = resolve(arg)]
            /\ err' = NoError
       ELSE err' = "WorkflowError" /\ UNCHANGED state_id
    /\ UNCHANGED <<db_motion, staged, has_new_version, version_sel, versions,
                   supporter, polls, afterCommit, requested,
                   lastSet, assigned, holder>>

\* ------------------------------------------------------------ save
\* Faulty variant: the policy is compared with a key the configuration never holds.
need_new_version_spelled(policy) == policy = "ALWAYS_CREATE_NEW_VERSION"
\* Line 101: the policy that asks for a new version on every change.
need_new_version(policy) == policy = ALWAYS_NEW

\* Lines 94-99: an attribute of the motion differs from last_version's.
new_data(m) == \E a \in Attrs : get_attr(m, a) # last_version(m)[a]

\* Faulty variant: last_version of a motion without rows builds no _new_version.
holds_new_version_kept(m) == has_new_version[m]
\* Line 102, hasattr(self, '_new_version'): the attribute was there, or the
\* read of last_version in line 95 has just built it (no row yet).
holds_new_version(m) == has_new_version[m] \/ last_version_builds(m)

\* The version object save writes to: a new one, the last one, none.
ToNew == "new"
ToLast == "last"
ToNone == "none"
\* Faulty variant: save tests for a motion without rows where it should test for the
\* attribute _new_version.
write_target_unrequested(m, policy) ==
    IF last_version_builds(m) \/ (new_data(m) /\ policy = ALWAYS_NEW) THEN ToNew
    ELSE IF new_data(m) /\ policy # ALWAYS_NEW THEN ToLast
    ELSE ToNone
\* Lines 102-111: the branch save takes.
write_target(m, policy) ==
    IF holds_new_version(m) \/ (new_data(m) /\ need_new_version(policy)) THEN ToNew
    ELSE IF new_data(m) /\ ~need_new_version(policy) THEN ToLast
    ELSE ToNone

\* Faulty variant: an attribute that is not staged is left at its default.
written_value_blank(m, a) ==
    IF staged[m][a] # Unset THEN staged[m][a] ELSE FieldDefault(a)
\* Lines 112-119: the value save writes into an attribute of the version.
written_value(m, a) ==
    IF staged[m][a] # Unset THEN staged[m][a] ELSE last_version(m)[a]
written_version(m) ==
    [motion |-> m, title |-> written_value(m, "title"),
     text |-> written_value(m, "text"), reason |-> written_value(m, "reason")]

\* Lines 104 and 119: save deletes _new_version, and the read of last_version
\* for an attribute that is not staged builds it again while the motion still
\* has no row.
new_version_left(m) ==
    last_version_builds(m) /\ \E a \in Attrs : staged[m][a] = Unset

\* Motion.save under the policy the configuration holds.
save(m, policy) ==
    LET target == write_target(m, policy)
        sid == IF state_id[m] = "" THEN reset_state_id ELSE state_id[m]
    IN  /\ (target = ToNew \/ (target = ToLast /\ OwnIds(m) = {}))
            => Len(versions) < MaxVersions
        /\ state_id' = [state_id EXCEPT ![m] = sid]
        /\ db_motion' = [db_motion EXCEPT ![m] = sid]
        /\ versions' =
              CASE target = ToNew -> Append(versions, written_version(m))
                [] target = ToLast ->
                      \* version = self.last_version: the newest row, saved
                      \* under its key (were there no row, the unsaved
                      \* object, saved as a new row)
                      IF OwnIds(m) = {} THEN Append(versions, written_version(m))
                      ELSE [versions EXCEPT ![MaxOf(OwnIds(m))] = written_version(m)]
                [] OTHER -> versions
        /\ staged' = IF target = ToNone THEN staged
                     ELSE [staged EXCEPT ![m] = [a \in Attrs |-> Unset]]
        /\ lastSet' = IF target = ToNone THEN lastSet
                      ELSE [lastSet EXCEPT ![m] = [a \in Attrs |-> Unset]]
        /\ has_new_version' =
              IF target = ToNew
              THEN [has_new_version EXCEPT ![m] = new_version_left(m)]
              ELSE has_new_version
        /\ afterCommit' = [afterCommit EXCEPT ![m] = TRUE]
        /\ requested' = [requested EXCEPT ![m] = FALSE]
        /\ err' = NoError
        /\ UNCHANGED <<version_sel, supporter, polls,
                   assigned, holder>>

\* ------------------------------------------------------------ supporters
\* Faulty variant: supporters are taken in every state.
can_support_always(m) == TRUE
\* Lines 247 and 259, self.state.support: the flag of the motion's state.
can_support(m) == state_support(get_state(m))

\* Motion.support: a MotionSupporter row is saved unless the person has one;
\* a motion without a row in the Motion table cannot be referenced.
support(m, p) ==
    /\ IF get_state(m) = NoState
       THEN err' = "AttributeError" /\ UNCHANGED supporter
       ELSE IF ~can_support(m)
       THEN err' = "WorkflowError" /\ UNCHANGED supporter
       ELSE IF is_supporter(m, p)
       THEN err' = NoError /\ UNCHANGED supporter
       ELSE IF db_motion[m] = NoRow
       THEN err' = "IntegrityError" /\ UNCHANGED supporter
       ELSE /\ supporter' = [supporter EXCEPT ![<<m, p>>] = @ + 1]
            /\ err' = NoError
    /\ UNCHANGED <<state_id, db_motion, staged, has_new_version, version_sel,
                   versions, polls, afterCommit, requested,
                   lastSet, assigned, holder>>

\* Motion.unsupport: every MotionSupporter row of the person is deleted.
unsupport(m, p) ==
    /\ IF get_state(m) = NoState
       THEN err' = "AttributeError" /\ UNCHANGED supporter
       ELSE IF ~can_support(m)
       THEN err' = "WorkflowError" /\ UNCHANGED supporter
       ELSE /\ supporter' = [supporter EXCEPT ![<<m, p>>] = 0]
            /\ err' = NoError
    /\ UNCHANGED <<state_id, db_motion, staged, has_new_version, version_sel,
                   versions, polls, afterCommit, requested,
                   lastSet, assigned, holder>>

\* ------------------------------------------------------------ polls
PollNumbers(m) == {q.poll_number : q \in {r \in polls : r.motion = m}}
\* Line 270: Max('poll_number') of the motion's polls, 0 when it has none.
max_poll_number(m) == IF PollNumbers(m) = {} THEN 0 ELSE MaxOf(PollNumbers(m))

\* Faulty variant: the polls of every motion are numbered in one row.
next_poll_number_all(m) ==
    (IF polls = {} THEN 0 ELSE MaxOf({q.poll_number : q \in polls})) + 1
\* Line 271: the number create_poll gives the new poll.
next_poll_number(m) == max_poll_number(m) + 1

\* Motion.create_poll.
create_poll(m) ==
    /\ max_poll_number(m) < MaxPolls
    /\ IF get_state(m) = NoState
       THEN err' = "AttributeError" /\ UNCHANGED <<polls, assigned>>
       ELSE IF ~state_poll(get_state(m))
       THEN err' = "WorkflowError" /\ UNCHANGED <<polls, assigned>>
       ELSE IF db_motion[m] = NoRow
       THEN err' = "IntegrityError" /\ UNCHANGED <<polls, assigned>>
       ELSE /\ polls' = polls \cup {[motion |-> m, poll_number |-> next_poll_number(m)]}
            /\ assigned' = [assigned EXCEPT ![m] = @ \cup {next_poll_number(m)}]
            /\ err' = NoError
    /\ UNCHANGED <<state_id, db_motion, staged, has_new_version, version_sel,
                   versions, supporter, afterCommit, requested,
                   lastSet, holder>>

\* The poll engine deletes the poll of motion m with the number n.
delete_poll(m, n) ==
    /\ [motion |-> m, poll_number |-> n] \in polls
    /\ polls' = polls \ {[motion |-> m, poll_number |-> n]}
    /\ err' = NoError
    /\ UNCHANGED <<state_id, db_motion, staged, has_new_version, version_sel,
                   versions, supporter, afterCommit, requested,
                   lastSet, assigned, holder>>

\* ------------------------------------------------------------ callers at the same time
\* A caller reads motion m1 from the Motion table to call create_poll.
p_load(h) ==
    /\ holder[h].pc = "idle"
    /\ db_motion["m1"] # NoRow
    /\ holder' = [holder EXCEPT ![h] =
                     [IdleHolder EXCEPT !.pc = "read", !.op = "create_poll",
                                        !.state_id = db_motion["m1"]]]
    /\ UNCHANGED <<state_id, db_motion, staged, has_new_version, version_sel,
                   versions, supporter, polls, err, afterCommit, requested,
                   lastSet, assigned>>

\* Lines 269-270 of create_poll: the test of the poll flag and the query for
\* the largest poll_number.
p_read(h) ==
    /\ holder[h].pc = "read"
    /\ max_poll_number("m1") < MaxPolls
    /\ holder' = [holder EXCEPT ![h] =
          IF resolve(holder[h].state_id) = NoState
          THEN [@ EXCEPT !.pc = "done", !.err = "AttributeError"]
          ELSE IF ~state_poll(resolve(holder[h].state_id))
          THEN [@ EXCEPT !.pc = "done", !.err = "WorkflowError"]
          ELSE [@ EXCEPT !.pc = "insert", !.num = max_poll_number("m1")]]
    /\ UNCHANGED <<state_id, db_motion, staged, has_new_version, version_sel,
                   versions, supporter, polls, err, afterCommit, requested,
                   lastSet, assigned>>

\* Line 271 of create_poll: the insert of the poll, which the table refuses
\* when the motion has a poll of that number (unique_together).
p_insert(h) ==
    /\ holder[h].pc = "insert"
    /\ LET q == [motion |-> "m1", poll_number |-> holder[h].num + 1]
       IN  IF q \in polls
           THEN /\ holder' = [holder EXCEPT ![h] =
                                 [@ EXCEPT !.pc = "done", !.err = "IntegrityError"]]
                /\ UNCHANGED <<polls, assigned>>
           ELSE /\ holder' = [holder EXCEPT ![h] =
                                 [@ EXCEPT !.pc = "done", !.num = q.poll_number]]
                /\ polls' = polls \cup {q}
                /\ assigned' = [assigned EXCEPT !["m1"] = @ \cup {q.poll_number}]
    /\ UNCHANGED <<state_id, db_motion, staged, has_new_version, version_sel,
                   versions, supporter, err, afterCommit, requested, lastSet>>

\* A caller reads motion m1 from the Motion table to call support or
\* unsupport for person p.
s_load(h, op, p) ==
    /\ holder[h].pc = "idle"
    /\ db_motion["m1"] # NoRow
    /\ holder' = [holder EXCEPT ![h] =
                     [IdleHolder EXCEPT !.pc = "check", !.op = op, !.person = p,
                                        !.state_id = db_motion["m1"]]]
    /\ UNCHANGED <<state_id, db_motion, staged, has_new_version, version_sel,
                   versions, supporter, polls, err, afterCommit, requested,
                   lastSet, assigned>>

\* Lines 247-248 of support: the test of the support flag and the query
\* is_supporter.
s_check(h) ==
    /\ holder[h].pc = "check"
    /\ holder[h].op = "support"
    /\ holder' = [holder EXCEPT ![h] =
          IF resolve(holder[h].state_id) = NoState
          THEN [@ EXCEPT !.pc = "done", !.err = "AttributeError"]
          ELSE IF ~state_support(resolve(holder[h].state_id))
          THEN [@ EXCEPT !.pc = "done", !.err = "WorkflowError"]
          ELSE IF is_supporter("m1", holder[h].person)
          THEN [@ EXCEPT !.pc = "done", !.found = TRUE]
          ELSE [@ EXCEPT !.pc = "insert"]]
    /\ UNCHANGED <<state_id, db_motion, staged, has_new_version, version_sel,
                   versions, supporter, polls, err, afterCommit, requested,
                   lastSet, assigned>>

\* Line 249 of support: the MotionSupporter row is saved; the table has no
\* constraint that refuses a second row of the person.
s_insert(h) ==
    /\ holder[h].pc = "insert"
    /\ holder[h].op = "support"
    /\ supporter' = [supporter EXCEPT ![<<"m1", holder[h].person>>] = @ + 1]
    /\ holder' = [holder EXCEPT ![h] = [@ EXCEPT !.pc = "done"]]
    /\ UNCHANGED <<state_id, db_motion, staged, has_new_version, version_sel,
                   versions, polls, err, afterCommit, requested, lastSet,
                   assigned>>

\* Lines 259-260 of unsupport: the test of the support flag and the delete
\* of the person's rows.
u_delete(h) ==
    /\ holder[h].pc = "check"
    /\ holder[h].op = "unsupport"
    /\ IF resolve(holder[h].state_id) = NoState
       THEN /\ holder' = [holder EXCEPT ![h] =
                             [@ EXCEPT !.pc = "done", !.err = "AttributeError"]]
            /\ UNCHANGED supporter
       ELSE IF ~state_support(resolve(holder[h].state_id))
       THEN /\ holder' = [holder EXCEPT ![h] =
                             [@ EXCEPT !.pc = "done", !.err = "WorkflowError"]]
            /\ UNCHANGED supporter
       ELSE /\ holder' = [holder EXCEPT ![h] = [@ EXCEPT !.pc = "done"]]
            /\ supporter' = [supporter EXCEPT ![<<"m1", holder[h].person>>] = 0]
    /\ UNCHANGED <<state_id, db_motion, staged, has_new_version, version_sel,
                   versions, polls, err, afterCommit, requested, lastSet,
                   assigned>>

\* The Motion object of a caller with one attribute set.
Buffer(st) == [a \in Attrs |-> IF a = st[1] THEN st[2] ELSE Unset]
AllIdle == \A h \in Holders : holder[h].pc = "idle"

\* Two callers read motion m1 from the Motion table, each sets an attribute
\* of its object and calls save under the policy the configuration holds.
c_start(st1, st2, policy) ==
    /\ AllIdle
    /\ db_motion["m1"] # NoRow
    /\ Len(versions) + 2 <= MaxVersions
    /\ holder' =
          [h \in Holders |->
              [IdleHolder EXCEPT !.pc = "begin", !.op = "save",
                                 !.state_id = db_motion["m1"],
                                 !.staged = IF h = "h1" THEN Buffer(st1)
                                            ELSE Buffer(st2),
                                 !.policy = policy, !.base = versions]]
    /\ UNCHANGED <<state_id, db_motion, staged, has_new_version, version_sel,
                   versions, supporter, polls, err, afterCommit, requested,
                   lastSet, assigned>>

\* Lines 90-93 of save: the state is reset if there is none, and the row of
\* the Motion table is written.
c_begin(h) ==
    /\ holder[h].pc = "begin"
    /\ LET sid == IF holder[h].state_id = "" THEN reset_state_id
                  ELSE holder[h].state_id
       IN  /\ db_motion' = [db_motion EXCEPT !["m1"] = sid]
           /\ holder' = [holder EXCEPT ![h] =
                            [@ EXCEPT !.pc = "check", !.state_id = sid]]
    /\ UNCHANGED <<state_id, staged, has_new_version, version_sel, versions,
                   supporter, polls, err, afterCommit, requested, lastSet,
                   assigned>>

\* The value an attribute of the caller's object has: the one set, else the
\* one of the last version in the table now.
c_attr(h, a) ==
    IF holder[h].staged[a] # Unset THEN holder[h].staged[a]
    ELSE last_version("m1")[a]
\* Lines 94-99 for the caller's object.
c_new_data(h) == \E a \in Attrs : c_attr(h, a) # last_version("m1")[a]
\* Lines 102-111 for the caller's object, which holds no _new_version unless
\* the read of last_version builds it.
c_target(h) ==
    IF last_version_builds("m1")
          \/ (c_new_data(h) /\ need_new_version(holder[h].policy)) THEN ToNew
    ELSE IF c_new_data(h) /\ ~need_new_version(holder[h].policy) THEN ToLast
    ELSE ToNone

\* Lines 94-111 of save: the comparison with the last version and the choice
\* of the version object; for the last version, the row read now.
c_check(h) ==
    /\ holder[h].pc = "check"
    /\ holder' = [holder EXCEPT ![h] =
          IF c_target(h) = ToNone
          THEN [@ EXCEPT !.pc = "done", !.target = ToNone]
          ELSE [@ EXCEPT !.pc = "fill", !.target = c_target(h),
                         !.pk = IF c_target(h) = ToLast /\ OwnIds("m1") # {}
                                THEN MaxOf(OwnIds("m1")) ELSE 0]]
    /\ UNCHANGED <<state_id, db_motion, staged, has_new_version, version_sel,
                   versions, supporter, polls, err, afterCommit, requested,
                   lastSet, assigned>>

\* Lines 112-119 of save: the attributes of the version object are the
\* values set, or those of the last version in the table now.
c_fill(h) ==
    /\ holder[h].pc = "fill"
    /\ holder' = [holder EXCEPT ![h] =
                     [@ EXCEPT !.pc = "write",
                               !.row = [a \in Attrs |-> c_attr(h, a)]]]
    /\ UNCHANGED <<state_id, db_motion, staged, has_new_version, version_sel,
                   versions, supporter, polls, err, afterCommit, requested,
                   lastSet, assigned>>

\* Line 120 of save: version.save() inserts the new object, or updates the
\* row the object was read from.
c_write(h) ==
    /\ holder[h].pc = "write"
    /\ LET v == [motion |-> "m1", title |-> holder[h].row["title"],
                 text |-> holder[h].row["text"],
                 reason |-> holder[h].row["reason"]]
       IN  versions' = IF holder[h].pk = 0 THEN Append(versions, v)
                       ELSE [versions EXCEPT ![holder[h].pk] = v]
    /\ holder' = [holder EXCEPT ![h] = [@ EXCEPT !.pc = "done"]]
    /\ UNCHANGED <<state_id, db_motion, staged, has_new_version, version_sel,
                   supporter, polls, err, afterCommit, requested, lastSet,
                   assigned>>

\* The caller drops its Motion object when the call has ended.
h_return(h) ==
    /\ holder[h].pc = "done"
    /\ holder' = [holder EXCEPT ![h] = IdleHolder]
    /\ UNCHANGED <<state_id, db_motion, staged, has_new_version, version_sel,
                   versions, supporter, polls, err, afterCommit, requested,
                   lastSet, assigned>>

\* ------------------------------------------------------------ specifications
\* Every operation on every motion.
Next ==
    \/ \E m \in Motions, a \in Attrs, v \in Vals : set_attr(m, a, v)
    \/ \E m \in Motions, a \in Attrs : call_get_attr(m, a)
    \/ \E m \in Motions : new_version(m)
    \/ \E m \in Motions : set_version_none(m)
    \/ \E m \in Motions, n \in -1..MaxVersions : set_version_int(m, n)
    \/ \E m \in Motions, pk \in 1..MaxVersions : set_version_object(m, pk)
    \/ \E m \in Motions : set_version_other(m)
    \/ \E m \in Motions, policy \in Policies : save(m, policy)
    \/ \E m \in Motions : reset_state(m)
    \/ \E m \in Motions, arg \in StateArgs : set_state(m, arg)
    \/ \E m \in Motions, p \in Persons : support(m, p)
    \/ \E m \in Motions, p \in Persons : unsupport(m, p)
    \/ \E m \in Motions : create_poll(m)
    \/ \E m \in Motions, n \in 1..MaxPolls : delete_poll(m, n)
    \/ \E h \in Holders : p_load(h) \/ p_read(h) \/ p_insert(h)
    \/ \E h \in Holders, op \in {"support", "unsupport"}, p \in Persons :
          s_load(h, op, p)
    \/ \E h \in Holders : s_check(h) \/ s_insert(h) \/ u_delete(h)
    \/ \E st1 \in Attrs \X Vals, st2 \in Attrs \X Vals, policy \in Policies :
          c_start(st1, st2, policy)
    \/ \E h \in Holders : c_begin(h) \/ c_check(h) \/ c_fill(h) \/ c_write(h)
    \/ \E h \in Holders : h_return(h)

Spec == Init /\ [][Next]_vars

\* The specifications below let the callers use a part of the operations, on
\* one motion or on both, with the staged values drawn from the sets named.
One == {"m1"}
\* title is staged with either value, text and reason with one.
StagedInputs ==
    {<<"title", "A">>, <<"title", "B">>, <<"text", "A">>, <<"reason", "A">>}
SelectInputs == {<<"title", "A">>, <<"title", "B">>, <<"text", "A">>}
TitleInputs == {<<"title", "A">>, <<"title", "B">>}

\* Staging, reading, requesting a new version and saving one motion.
LedgerNext ==
    \/ \E m \in One, st \in StagedInputs : set_attr(m, st[1], st[2])
    \/ \E m \in One, a \in Attrs : call_get_attr(m, a)
    \/ \E m \in One : new_version(m)
    \/ \E m \in One, policy \in Policies : save(m, policy)

SpecLedger == Init /\ [][LedgerNext]_vars

\* The same with the choice of the active version.
SelectNext ==
    \/ \E m \in One, st \in SelectInputs : set_attr(m, st[1], st[2])
    \/ \E m \in One, a \in Attrs : call_get_attr(m, a)
    \/ \E m \in One : new_version(m)
    \/ \E m \in One : set_version_none(m)
    \/ \E m \in One, n \in -1..MaxVersions : set_version_int(m, n)
    \/ \E m \in One, pk \in 1..MaxVersions : set_version_object(m, pk)
    \/ \E m \in One : set_version_other(m)
    \/ \E m \in One, policy \in Policies : save(m, policy)

SpecSelect == Init /\ [][SelectNext]_vars

\* Setters and saves while the configuration never asks for new versions.
UpdateOnlyNext ==
    \/ \E m \in One, st \in StagedInputs : set_attr(m, st[1], st[2])
    \/ \E m \in One : save(m, UPDATE_EXISTING)

SpecUpdateOnly == Init /\ [][UpdateOnlyNext]_vars

\* Setters, new_version and saves while the configuration always asks for
\* new versions.
AlwaysNewNext ==
    \/ \E m \in One, st \in StagedInputs : set_attr(m, st[1], st[2])
    \/ \E m \in One : new_version(m)
    \/ \E m \in One : save(m, ALWAYS_NEW)

SpecAlwaysNew == Init /\ [][AlwaysNewNext]_vars

\* Two motions saved in any order.
TwoMotionsNext ==
    \/ \E m \in Motions, st \in TitleInputs : set_attr(m, st[1], st[2])
    \/ \E m \in Motions : new_version(m)
    \/ \E m \in Motions, policy \in Policies : save(m, policy)

SpecTwoMotions == Init /\ [][TwoMotionsNext]_vars

\* The workflow of one motion with its supporters and polls.
WorkflowNext ==
    \/ \E m \in One, policy \in Policies : save(m, policy)
    \/ \E m \in One : reset_state(m)
    \/ \E m \in One, arg \in StateArgs : set_state(m, arg)
    \/ \E m \in One, p \in Persons : support(m, p)
    \/ \E m \in One, p \in Persons : unsupport(m, p)
    \/ \E m \in One : create_poll(m)

SpecWorkflow == Init /\ [][WorkflowNext]_vars

\* The polls of two motions, each saved once: created, and deleted by the
\* poll engine.
PollsNext ==
    \/ \E m \in Motions : db_motion[m] = NoRow /\ save(m, UPDATE_EXISTING)
    \/ \E m \in Motions, arg \in StateIds : set_state(m, arg)
    \/ \E m \in Motions : create_poll(m)
    \/ \E m \in Motions, n \in 1..MaxPolls : delete_poll(m, n)

SpecPolls == Init /\ [][PollsNext]_vars

\* One motion is saved and moved along the workflow, and two callers create
\* polls for it at the same time.
ConcPollsNext ==
    \/ save("m1", UPDATE_EXISTING)
    \/ \E arg \in StateIds : set_state("m1", arg)
    \/ \E h \in Holders : p_load(h)
    \/ \E h \in Holders : p_read(h)
    \/ \E h \in Holders : p_insert(h)
    \/ \E h \in Holders : h_return(h)

SpecConcPolls == Init /\ [][ConcPollsNext]_vars

\* One motion is saved and moved along the workflow, and two callers support
\* and unsupport it at the same time.
ConcSupportNext ==
    \/ save("m1", UPDATE_EXISTING)
    \/ \E arg \in StateIds : set_state("m1", arg)
    \/ \E h \in Holders, op \in {"support", "unsupport"}, p \in Persons :
          s_load(h, op, p)
    \/ \E h \in Holders : s_check(h)
    \/ \E h \in Holders : s_insert(h)
    \/ \E h \in Holders : u_delete(h)
    \/ \E h \in Holders : h_return(h)

SpecConcSupport == Init /\ [][ConcSupportNext]_vars

\* One motion is saved with a title; then two callers save it at the same
\* time, each with one attribute set.
ConcInputs == {<<"title", "A">>, <<"title", "B">>, <<"text", "A">>}
ConcSaveNext ==
    \/ \E st \in TitleInputs : AllIdle /\ set_attr("m1", st[1], st[2])
    \/ \E policy \in Policies : AllIdle /\ save("m1", policy)
    \/ \E st1 \in ConcInputs, st2 \in ConcInputs, policy \in Policies :
          c_start(st1, st2, policy)
    \/ \E h \in Holders : c_begin(h)
    \/ \E h \in Holders : c_check(h)
    \/ \E h \in Holders : c_fill(h)
    \/ \E h \in Holders : c_write(h)
    \/ \E h \in Holders : h_return(h)

SpecConcSave == Init /\ [][ConcSaveNext]_vars

\* ------------------------------------------------------------ claims
\* The motion's rows before and after a step.
OwnIdsAfter(m) == {i \in 1..Len(versions') : versions'[i].motion = m}
\* A staged attribute differs from the attribute of the last version.
StagedDiffers(m) ==
    \E a \in Attrs : staged[m][a] # Unset /\ staged[m][a] # last_version(m)[a]
\* The step appends one row for motion m and leaves every other row as it is.
AppendsOneFor(m) ==
    /\ Len(versions') = Len(versions) + 1
    /\ SubSeq(versions', 1, Len(versions)) = versions
    /\ versions'[Len(versions')].motion = m

\* C1: a save that follows a save of the same motion, with no setter, no
\* new_version and no set_version call in between, writes no version: the
\* table is left as it is.
C1_SecondSaveWritesNothing ==
    [][\A m \in Motions, policy \in Policies :
          (afterCommit[m] /\ save(m, policy)) => versions' = versions]_vars

\* C2: set_state(arg) assigns state_id exactly when arg resolves to a member
\* of the current state's next_states; in every other case it raises
\* WorkflowError and leaves state_id as it is.
C2_SetStateContract ==
    [][\A m \in Motions, arg \in StateArgs :
          set_state(m, arg) =>
             IF resolve(arg) \in next_states(get_state(m))
             THEN state_id'[m] = resolve(arg) /\ err' = NoError
             ELSE state_id' = state_id /\ err' = "WorkflowError"]_vars

\* C3: a motion with a row in the Motion table has a state the registry
\* knows, in memory and in the table.
C3_SavedStateResolves ==
    \A m \in Motions :
        db_motion[m] # NoRow =>
            /\ get_state(m) \in StateIds
            /\ resolve(db_motion[m]) \in StateIds

\* C3 witness: a saved motion that went along two edges of the registry, and
\* whose last call was refused.
C3_Witness ==
    \E m \in Motions :
        db_motion[m] # NoRow /\ state_id[m] = "acc" /\ err = "WorkflowError"

\* C4: a motion with a row in the Motion table has at least one version, and
\* a save of a motion without versions writes its first one, whatever the
\* policy and whatever is staged.
C4_SavedHasVersion ==
    /\ [](\A m \in Motions : db_motion[m] # NoRow => OwnIds(m) # {})
    /\ [][\A m \in Motions, policy \in Policies :
             (OwnIds(m) = {} /\ save(m, policy)) =>
                 Cardinality(OwnIdsAfter(m)) = 1]_vars

\* C4 witness: the first version of a motion saved with nothing staged.
C4_Witness ==
    \E m \in Motions :
        /\ afterCommit[m]
        /\ Cardinality(OwnIds(m)) = 1
        /\ last_version(m) = NewVersionObject(m)

\* The attribute a of the motion's newest row before the step; the field
\* default while the motion has no row.
PreviousValue(m, a) ==
    IF OwnIds(m) = {} THEN FieldDefault(a) ELSE versions[MaxOf(OwnIds(m))][a]

\* C5: a save under ALLWASY_CREATE_NEW_VERSION with a staged attribute that
\* differs from the last version appends exactly one row; the row holds the
\* staged value of every staged attribute and the previous last version's
\* value of every other attribute, and its version_number is one more than
\* the number of versions the motion had.
C5_AlwaysNewAppendsCarrying ==
    [][\A m \in Motions :
          (StagedDiffers(m) /\ save(m, ALWAYS_NEW)) =>
             /\ AppendsOneFor(m)
             /\ \A a \in Attrs :
                   versions'[Len(versions')][a] =
                      IF staged[m][a] # Unset THEN staged[m][a]
                      ELSE PreviousValue(m, a)
             /\ Cardinality(OwnIdsAfter(m)) = Cardinality(OwnIds(m)) + 1]_vars

\* C5 witness: a second version with the new title and the text and reason
\* of the first one.
C5_Witness ==
    /\ afterCommit["m1"]
    /\ Len(versions) = 2
    /\ versions[1] = [motion |-> "m1", title |-> "A", text |-> "A", reason |-> NoneVal]
    /\ versions[2] = [motion |-> "m1", title |-> "B", text |-> "A", reason |-> NoneVal]

\* C6: while every save runs under the policy that updates the existing
\* version and new_version is never requested, a saved motion has exactly
\* one version.
C6_UpdateKeepsOneVersion ==
    \A m \in Motions : db_motion[m] # NoRow => Cardinality(OwnIds(m)) = 1

\* C7: save writes a version only if the motion has no version, or the
\* attribute _new_version is there, or a staged attribute differs from the
\* last version; with an older version selected and nothing staged it
\* writes nothing.
C7_WritesOnlyWhenDirty ==
    [][\A m \in Motions, policy \in Policies :
          (save(m, policy) /\ write_target(m, policy) # ToNone) =>
             \/ OwnIds(m) = {}
             \/ has_new_version[m]
             \/ StagedDiffers(m)]_vars

\* C8: the save that follows a read of new_version appends exactly one row
\* under either policy, whether or not a staged attribute differs; no other
\* row changes, and the attributes that are not staged hold the values of
\* the previous last version.
C8_RequestedSaveAppends ==
    [][\A m \in Motions, policy \in Policies :
          (requested[m] /\ save(m, policy)) =>
             /\ AppendsOneFor(m)
             /\ \A a \in Attrs :
                   staged[m][a] = Unset =>
                      versions'[Len(versions')][a] = PreviousValue(m, a)]_vars

\* C8 witness: a second version equal to the first, whose attributes were
\* all staged: nothing differed, and only the request made the save write.
C8_Witness ==
    /\ afterCommit["m1"]
    /\ Len(versions) = 2
    /\ versions[1] = [motion |-> "m1", title |-> "A", text |-> "A", reason |-> "A"]
    /\ versions[2] = versions[1]

\* C9: under ALLWASY_CREATE_NEW_VERSION no step changes or removes a row of
\* the version table: the table only grows at its end.
C9_AppendOnly ==
    [][/\ Len(versions') >= Len(versions)
       /\ SubSeq(versions', 1, Len(versions)) = versions]_vars

\* C9 witness: two versions of different titles, the older one as written.
C9_Witness ==
    /\ afterCommit["m1"]
    /\ Len(versions) >= 2
    /\ versions[1].title = "A"
    /\ versions[2].title = "B"

\* C10: the version_number values of a motion's rows, in the order of their
\* creation, are 1, 2, ..., N, whatever rows other motions got in between.
C10_VersionNumbersCount ==
    \A m \in Motions :
        \A k \in 1..Len(OwnSeq(m)) : version_number(OwnSeq(m)[k]) = k

\* C10 witness: the second version of a motion is the third row of the
\* table, a row of the other motion lying in between.
C10_Witness ==
    /\ Len(versions) = 3
    /\ versions[1].motion = "m1"
    /\ versions[2].motion = "m2"
    /\ versions[3].motion = "m1"

\* C11: a getter returns the value a setter gave the attribute since the last
\* save that wrote a version, and otherwise the attribute of the motion's
\* newest version.
C11_GetterReadsNewest ==
    \A m \in Motions, a \in Attrs :
        get_attr(m, a) = IF lastSet[m][a] # Unset THEN lastSet[m][a]
                         ELSE PreviousValue(m, a)

\* C11 as the code has it: a getter returns the value a setter gave the
\* attribute since the last save that wrote a version, and otherwise the
\* attribute of the active version: the object set_version selected, as it
\* was read then, else the newest version, else the field default while the
\* motion has no version. A setter changes no row of the Motion and the
\* version table.
C11_GetterReadsActive ==
    /\ [](\A m \in Motions, a \in Attrs :
            get_attr(m, a) =
               IF lastSet[m][a] # Unset THEN lastSet[m][a]
               ELSE IF version_sel[m].id # 0 THEN version_sel[m].row[a]
               ELSE PreviousValue(m, a))
    /\ [][\A m \in Motions, a \in Attrs, v \in Vals :
             set_attr(m, a, v) =>
                versions' = versions /\ db_motion' = db_motion]_vars

\* C11 witness: the first version is the active one while a newer version
\* has another title, and a text is staged that no row holds.
C11_Witness ==
    /\ version_sel["m1"].id = 1
    /\ Len(versions) >= 2
    /\ staged["m1"]["title"] = Unset
    /\ version_sel["m1"].row["title"] # last_version("m1")["title"]
    /\ lastSet["m1"]["text"] = "A"
    /\ \A i \in 1..Len(versions) : versions[i]["text"] # "A"

\* C12: set_version(n) makes the version whose version_number is n the
\* active one for every n from 1 to the number of the motion's versions; for
\* every other natural number n, 0 and the number of versions plus one among
\* them, it raises the error of an index out of range and leaves the active
\* version as it is.
C12_SelectByOrdinal ==
    [][\A m \in Motions, n \in 0..MaxVersions :
          set_version_int(m, n) =>
             IF n \in 1..Len(OwnSeq(m))
             THEN /\ err' = NoError
                  /\ version_sel'[m].id \in OwnIds(m)
                  /\ version_number(version_sel'[m].id) = n
             ELSE /\ err' = "IndexError"
                  /\ version_sel' = version_sel]_vars

\* A call of support, unsupport or create_poll on motion m.
GatedCall(m) ==
    \/ \E p \in Persons : support(m, p) \/ unsupport(m, p)
    \/ create_poll(m)

\* C13: support and unsupport raise WorkflowError whenever the support flag
\* of the motion's state is false, and create_poll raises it whenever the
\* poll flag is false; a call that raises leaves the supporters, the polls,
\* state_id and the Motion and version tables as they are, and a create_poll
\* that succeeds leaves state_id and the two tables as they are.
C13_CapabilityGating ==
    [][\A m \in Motions :
          /\ \A p \in Persons :
                ((support(m, p) \/ unsupport(m, p))
                    /\ get_state(m) # NoState /\ ~state_support(get_state(m)))
                 => err' = "WorkflowError"
          /\ (create_poll(m) /\ get_state(m) # NoState /\ ~state_poll(get_state(m)))
                 => err' = "WorkflowError"
          /\ (GatedCall(m) /\ err' # NoError)
                 => /\ supporter' = supporter
                    /\ polls' = polls
                    /\ state_id' = state_id
                    /\ db_motion' = db_motion
                    /\ versions' = versions
          /\ (create_poll(m) /\ err' = NoError)
                 => /\ Cardinality(polls') = Cardinality(polls) + 1
                    /\ state_id' = state_id
                    /\ db_motion' = db_motion
                    /\ versions' = versions]_vars

\* C13 witness: a motion that has a supporter and a poll is in a state
\* without either flag, and the last call was refused.
C13_Witness ==
    /\ state_id["m1"] = "acc"
    /\ supporter[<<"m1", "p1">>] = 1
    /\ PollNumbers("m1") # {}
    /\ err = "WorkflowError"

\* C14: with calls that follow one another, a person has at most one
\* MotionSupporter row per motion; a support that returns leaves exactly one
\* row, also when the person was a supporter before (the call then writes
\* nothing), an unsupport that returns leaves none, and no other call
\* changes the rows: is_supporter is true exactly when the last call for
\* the person that returned was support.
C14_SupportIdempotent ==
    /\ [](\A m \in Motions, p \in Persons : supporter[<<m, p>>] <= 1)
    /\ [][\A m \in Motions, p \in Persons :
             /\ (support(m, p) /\ err' = NoError)
                    => supporter'[<<m, p>>] = 1 /\ is_supporter(m, p)'
             /\ (support(m, p) /\ is_supporter(m, p) /\ can_support(m))
                    => supporter' = supporter /\ err' = NoError
             /\ (unsupport(m, p) /\ err' = NoError)
                    => supporter'[<<m, p>>] = 0 /\ ~is_supporter(m, p)'
             /\ supporter'[<<m, p>>] # supporter[<<m, p>>]
                    => (support(m, p) \/ unsupport(m, p)) /\ err' = NoError]_vars

\* C14 witness: in a state that takes supporters, one person supports the
\* motion with one row and the other does not, the last call having
\* returned.
C14_Witness ==
    /\ get_state("m1") # NoState
    /\ can_support("m1")
    /\ supporter[<<"m1", "p1">>] = 1
    /\ supporter[<<"m1", "p2">>] = 0
    /\ err = NoError

\* C15: create_poll on a saved motion whose state has the poll flag creates
\* exactly one poll, of that motion, with 1 plus the largest poll_number of
\* the motion's polls as its number (1 when the motion has none), whatever
\* polls the other motions have; the polls there were stay as they are.
C15_NextPollNumber ==
    [][\A m \in Motions :
          (/\ create_poll(m)
           /\ db_motion[m] # NoRow
           /\ get_state(m) # NoState
           /\ state_poll(get_state(m)))
          => /\ err' = NoError
             /\ LET n == IF PollNumbers(m) = {} THEN 1
                         ELSE 1 + MaxOf(PollNumbers(m))
                IN  /\ [motion |-> m, poll_number |-> n] \notin polls
                    /\ polls' = polls \cup {[motion |-> m, poll_number |-> n]}]_vars

\* C15 witness: a motion got the numbers 1, 2 and 3 while the other motion
\* has a poll with the number 1.
C15_Witness ==
    /\ PollNumbers("m1") = {1, 2, 3}
    /\ PollNumbers("m2") = {1}
    /\ err = NoError

\* C16: a poll that create_poll adds has a number above every number a poll
\* of the motion was ever given, polls deleted since then included: no
\* number is given twice.
C16_PollNumbersNeverReused ==
    [][\A q \in polls' \ polls :
          \A k \in assigned[q.motion] : q.poll_number > k]_vars

\* C20: the attribute _new_version is there only after a caller read the
\* property new_version, and the save that follows removes it: after every
\* save, of a motion without versions and with any attributes staged too,
\* the motion holds no _new_version.
C20_NoPendingNewVersion ==
    /\ [](\A m \in Motions : has_new_version[m] => requested[m])
    /\ [][\A m \in Motions, policy \in Policies :
             save(m, policy) => ~has_new_version'[m]]_vars

\* C18: when callers run create_poll on one motion at the same time, each
\* call made in a state with the poll flag returns a poll (no call ends with
\* the table's IntegrityError), and calls that have ended hold different
\* numbers.
C18_ConcurrentPollsSucceed ==
    /\ \A h \in Holders :
          (/\ holder[h].op = "create_poll"
           /\ holder[h].pc = "done"
           /\ resolve(holder[h].state_id) # NoState
           /\ state_poll(resolve(holder[h].state_id)))
          => holder[h].err = NoError
    /\ \A h1 \in Holders : \A h2 \in Holders \ {h1} :
          (/\ holder[h1].op = "create_poll" /\ holder[h1].pc = "done"
           /\ holder[h2].op = "create_poll" /\ holder[h2].pc = "done"
           /\ holder[h1].err = NoError /\ holder[h2].err = NoError)
          => holder[h1].num # holder[h2].num

\* C19: when callers run support and unsupport for one person on one motion
\* at the same time, the person never has more than one MotionSupporter
\* row, and when two such calls have ended the person is a supporter
\* exactly if the call that comes last in one of the two orders is support.
C19_ConcurrentSupportSerial ==
    /\ \A p \in Persons : supporter[<<"m1", p>>] <= 1
    /\ \A h1 \in Holders : \A h2 \in Holders \ {h1} :
          (/\ holder[h1].pc = "done" /\ holder[h2].pc = "done"
           /\ holder[h1].op \in {"support", "unsupport"}
           /\ holder[h2].op \in {"support", "unsupport"}
           /\ holder[h1].person = holder[h2].person
           /\ holder[h1].err = NoError /\ holder[h2].err = NoError)
          => \/ is_supporter("m1", holder[h1].person) <=> holder[h1].op = "support"
             \/ is_supporter("m1", holder[h1].person) <=> holder[h2].op = "support"

\* The version table after a save that runs alone: vs is the table before,
\* st the attributes set on the caller's object.
SerialSave(vs, st, policy) ==
    LET own == {i \in 1..Len(vs) : vs[i].motion = "m1"}
        last == IF own = {} THEN NewVersionObject("m1") ELSE vs[MaxOf(own)]
        val(a) == IF st[a] # Unset THEN st[a] ELSE last[a]
        dirty == \E a \in Attrs : val(a) # last[a]
        v == [motion |-> "m1", title |-> val("title"), text |-> val("text"),
              reason |-> val("reason")]
    IN  IF own = {} \/ (dirty /\ policy = ALWAYS_NEW) THEN Append(vs, v)
        ELSE IF dirty THEN [vs EXCEPT ![MaxOf(own)] = v]
        ELSE vs

\* C17: when two callers save one motion at the same time, the version
\* table they leave is the table that one of the two orders of the saves,
\* each run alone, leaves.
C17_ConcurrentSavesSerial ==
    (\A h \in Holders : holder[h].op = "save" /\ holder[h].pc = "done")
    => LET b == holder["h1"].base
           s1 == holder["h1"].staged
           s2 == holder["h2"].staged
           pol == holder["h1"].policy
       IN  \/ versions = SerialSave(SerialSave(b, s1, pol), s2, pol)
           \/ versions = SerialSave(SerialSave(b, s2, pol), s1, pol)

=============================================================================
